---- MODULE Spec2Model ----
(***************************************************************************)
(* A model of the DataAgent tool server (mcp_server.py) and of the chat    *)
(* client that drives it (mcp_client.py).                                  *)
(*                                                                         *)
(* Server: one global DataFrame `df`, eight tools registered on FastMCP.   *)
(* Client: process_query alternates model completions and tool calls.      *)
(*                                                                         *)
(* Library semantics the code relies on are modelled by what they do:      *)
(*  - pandas: boolean indexing keeps the rows whose mask is True, in       *)
(*    order, with their index labels and all columns; every comparison     *)
(*    with NaN is False; quantile/mean/std skip NaN; quantile uses linear  *)
(*    interpolation; df[c] raises KeyError for an unknown column.          *)
(*  - FastMCP: a tool function that raises yields a result with            *)
(*    isError = True carrying the exception text; an unregistered name     *)
(*    yields an "Unknown tool" error result; the server keeps running.     *)
(* Numbers are kept exact: a quantile is held times four, the outlier      *)
(* fences times eight, a mean or variance as numerator and denominator.    *)
(***************************************************************************)
EXTENDS Integers, Sequences, FiniteSets, TLC

\* ------------------------------------------------------------ bounds
\* filter thresholds tried: 0..MaxVal
MaxVal == 3

\* ------------------------------------------------------------ python values
\* a missing cell of a CSV file, as pandas reads it
NaN == -1

\* the empty dict {}
EmptyDict == [k \in {} |-> TRUE]

\* df = None
None == [none |-> TRUE]

\* the assertion message (its backquotes around load_data left out)
MustLoadMsg == "Must execute load_data first."

Return(v) == [kind |-> "return", value |-> v]
Raise(exc, msg) == [kind |-> "raise", exc |-> exc, msg |-> msg]

\* ------------------------------------------------------------ the data directory
BaseDir == "examples/DA-Agent/data/da-dev-tables/"
CsvExt == ".csv"

\* A file name is the sequence of its parts, so that startswith and endswith
\* are tests on the first and the last part.
endswith_csv(file_name) == Len(file_name) > 0 /\ file_name[Len(file_name)] = CsvExt
startswith_base(file_name) == Len(file_name) > 0 /\ file_name[1] = BaseDir

Row(i, cells) == [idx |-> i, cells |-> cells]

Titanic ==
  [columns |-> <<"age", "fare">>,
   rows |-> << Row(0, [age |-> 1, fare |-> 0]),
               Row(1, [age |-> NaN, fare |-> 2]),
               Row(2, [age |-> 3, fare |-> 1]),
               Row(3, [age |-> 2, fare |-> 2]),
               Row(4, [age |-> 9, fare |-> 3]) >>]

Iris ==
  [columns |-> <<"width">>,
   rows |-> << Row(0, [width |-> 2]),
               Row(1, [width |-> 2]),
               Row(2, [width |-> 0]) >>]

TitanicPath == <<BaseDir, "titanic", CsvExt>>
IrisPath == <<BaseDir, "iris", CsvExt>>

\* the files that exist under the data directory
DiskPaths == {TitanicPath, IrisPath}

\* pd.read_csv of an existing file
read_csv(path) == IF path = TitanicPath THEN Titanic ELSE Iris

\* ------------------------------------------------------------ tool arguments tried
FileNames ==
  { <<"titanic">>, <<"titanic", CsvExt>>, <<BaseDir, "titanic">>,
    <<BaseDir, "titanic", CsvExt>>, <<"iris">>, <<"absent">> }

ColumnNames == {"age", "fare", "width"}

ValidBy == {"equal", "less", "less/equal", "greater", "greater/equal"}
ByArgs == ValidBy \cup {"bogus"}

Values == 0..MaxVal

\* ------------------------------------------------------------ pandas
HasColumn(d, c) == \E i \in 1..Len(d.columns) : d.columns[i] = c

\* df[column_name] of a present column: the column's values in row order
Series(d, c) == [i \in 1..Len(d.rows) |-> d.rows[i].cells[c]]

\* df.shape[0]
shape0(d) == Len(d.rows)

\* elementwise comparisons of a cell with a number; NaN compares False
Eq(x, v) == x # NaN /\ x = v
\* "less" taken as less-or-equal
Lt_inclusive(x, v) == x # NaN /\ x <= v
Lt(x, v) == x # NaN /\ x < v
Le(x, v) == x # NaN /\ x <= v
Gt(x, v) == x # NaN /\ x > v
Ge(x, v) == x # NaN /\ x >= v

RECURSIVE TakeRows(_, _, _)
TakeRows(rows, mask, i) ==
  IF i > Len(rows) THEN <<>>
  ELSE (IF mask[i] THEN <<rows[i]>> ELSE <<>>) \o TakeRows(rows, mask, i + 1)

\* a selection whose mask is applied one row late
BoolIndex_shifted(d, mask) ==
  [columns |-> d.columns,
   rows |-> TakeRows(d.rows, [i \in 1..Len(d.rows) |-> i > 1 /\ mask[i - 1]], 1)]

\* df[mask]: the rows whose mask is True, order, labels and columns kept
BoolIndex(d, mask) == [columns |-> d.columns, rows |-> TakeRows(d.rows, mask, 1)]

dropna(s) == SelectSeq(s, LAMBDA x : x # NaN)

RECURSIVE Insert(_, _)
Insert(x, s) ==
  IF s = <<>> THEN <<x>>
  ELSE IF x <= Head(s) THEN <<x>> \o s
  ELSE <<Head(s)>> \o Insert(x, Tail(s))

RECURSIVE Sort(_)
Sort(s) == IF s = <<>> THEN <<>> ELSE Insert(Head(s), Sort(Tail(s)))

RECURSIVE Sum(_)
Sum(s) == IF s = <<>> THEN 0 ELSE Head(s) + Sum(Tail(s))

Squares(s) == [i \in 1..Len(s) |-> s[i] * s[i]]

\* Series.quantile(k/4), linear interpolation over the non-NaN values:
\* position (n-1)*k/4; the result is held times four. nan when no value.
Quantile4(s, k) ==
  LET v == Sort(dropna(s))
      n == Len(v)
      pos4 == k * (n - 1)
      lo == pos4 \div 4
      r == pos4 % 4
  IN IF n = 0 THEN [nan |-> TRUE, x4 |-> 0]
     ELSE [nan |-> FALSE,
           x4 |-> IF r = 0 THEN 4 * v[lo + 1]
                  ELSE (4 - r) * v[lo + 1] + r * v[lo + 2]]

\* Series.mean(): sum over count of the non-NaN values, nan when none
Mean(s) ==
  LET v == dropna(s)
  IN IF Len(v) = 0 THEN [nan |-> TRUE, num |-> 0, den |-> 1]
     ELSE [nan |-> FALSE, num |-> Sum(v), den |-> Len(v)]

\* Series.std(): the sample standard deviation (ddof = 1), held as its square
\* (n*sum(x^2) - sum(x)^2) / (n*(n-1)); nan for fewer than two values
Std(s) ==
  LET v == dropna(s)
      n == Len(v)
  IN IF n < 2 THEN [nan |-> TRUE, sqnum |-> 0, sqden |-> 1]
     ELSE [nan |-> FALSE,
           sqnum |-> n * Sum(Squares(v)) - Sum(v) * Sum(v),
           sqden |-> n * (n - 1)]

\* Series.value_counts().to_dict(): occurrences of each non-NaN value
ValueCounts(s) ==
  LET v == dropna(s)
      vals == {v[i] : i \in 1..Len(v)}
  IN [x \in vals |-> Cardinality({i \in 1..Len(v) : v[i] = x})]

\* Series.describe().to_dict() of a numeric column
Describe(s) ==
  LET v == Sort(dropna(s))
  IN [count |-> Len(v), mean |-> Mean(s), std |-> Std(s),
      min |-> IF v = <<>> THEN NaN ELSE v[1],
      q25 |-> Quantile4(s, 1), q50 |-> Quantile4(s, 2), q75 |-> Quantile4(s, 3),
      max |-> IF v = <<>> THEN NaN ELSE v[Len(v)]]

\* ------------------------------------------------------------ the tools
\* Each tool is a function of the global df and its arguments; it yields the
\* new df and either the returned value or the exception raised.
SizeInfo(d) == [success |-> TRUE, information |-> [data_size |-> shape0(d)]]

AssertLoaded(d) == [df |-> d, out |-> Raise("AssertionError", MustLoadMsg)]
KeyError(d, column_name) == [df |-> d, out |-> Raise("KeyError", column_name)]

\* normalisation of the file name in load_data
NormalizePath(file_name) ==
  LET withExt == IF ~endswith_csv(file_name) THEN Append(file_name, CsvExt)
                 ELSE file_name
  IN IF ~startswith_base(withExt) THEN <<BaseDir>> \o withExt ELSE withExt

\* a load that reads the file only while nothing is loaded
load_data_once(d, file_name) ==
  LET path == NormalizePath(file_name)
  IN IF path \notin DiskPaths
     THEN [df |-> d, out |-> Raise("FileNotFoundError", "No such file or directory")]
     ELSE IF d # None THEN [df |-> d, out |-> Return(SizeInfo(d))]
     ELSE [df |-> read_csv(path), out |-> Return(SizeInfo(read_csv(path)))]

\* a load that drops the old dataset before it reads the file
load_data_reset(d, file_name) ==
  LET path == NormalizePath(file_name)
  IN IF path \notin DiskPaths
     THEN [df |-> None, out |-> Raise("FileNotFoundError", "No such file or directory")]
     ELSE [df |-> read_csv(path), out |-> Return(SizeInfo(read_csv(path)))]

load_data(d, file_name) ==
  LET path == NormalizePath(file_name)
  IN IF path \notin DiskPaths
     THEN [df |-> d, out |-> Raise("FileNotFoundError", "No such file or directory")]
     ELSE [df |-> read_csv(path), out |-> Return(SizeInfo(read_csv(path)))]

\* a guard that takes an empty dataset for a missing one
get_column_names_nonempty(d) ==
  IF d = None THEN AssertLoaded(d)
  ELSE IF Len(d.rows) = 0 THEN AssertLoaded(d)
  ELSE [df |-> d, out |-> Return([list |-> d.columns])]

get_column_names(d) ==
  IF d = None THEN AssertLoaded(d)
  ELSE [df |-> d, out |-> Return([list |-> d.columns])]

describe_column(d, column_name) ==
  IF d = None THEN AssertLoaded(d)
  ELSE IF ~HasColumn(d, column_name) THEN KeyError(d, column_name)
  ELSE [df |-> d, out |-> Return([describe |-> Describe(Series(d, column_name))])]

get_value_counts(d, column_name) ==
  IF d = None THEN AssertLoaded(d)
  ELSE IF ~HasColumn(d, column_name) THEN KeyError(d, column_name)
  ELSE [df |-> d, out |-> Return([counts |-> ValueCounts(Series(d, column_name))])]

Unrecognized(by) ==
  [success |-> FALSE,
   information |-> [error_message |-> [text |-> "Unrecognized value for by", by |-> by]]]

\* a filter whose else branch is missing: an unknown `by` filters nothing
\* and reports the size
FilterRows_noelse(d, column_name, value, by) ==
  IF by \notin ValidBy THEN [df |-> d, out |-> Return(SizeInfo(d))]
  ELSE IF ~HasColumn(d, column_name) THEN KeyError(d, column_name)
  ELSE LET new == BoolIndex(d, [i \in 1..Len(d.rows) |->
                    \/ by = "equal" /\ Eq(Series(d, column_name)[i], value)
                    \/ by = "less" /\ Lt(Series(d, column_name)[i], value)
                    \/ by = "less/equal" /\ Le(Series(d, column_name)[i], value)
                    \/ by = "greater" /\ Gt(Series(d, column_name)[i], value)
                    \/ by = "greater/equal" /\ Ge(Series(d, column_name)[i], value)])
       IN [df |-> new, out |-> Return(SizeInfo(new))]

\* the if/elif chain of filter on a loaded df, and its two returns
FilterRows(d, column_name, value, by) ==
  IF by \notin ValidBy THEN [df |-> d, out |-> Return(Unrecognized(by))]
  ELSE IF ~HasColumn(d, column_name) THEN KeyError(d, column_name)
  ELSE LET new ==
             CASE by = "equal" ->
                    BoolIndex(d, [i \in 1..Len(d.rows) |-> Eq(Series(d, column_name)[i], value)])
               [] by = "less" ->
                    BoolIndex(d, [i \in 1..Len(d.rows) |-> Lt(Series(d, column_name)[i], value)])
               [] by = "less/equal" ->
                    BoolIndex(d, [i \in 1..Len(d.rows) |-> Le(Series(d, column_name)[i], value)])
               [] by = "greater" ->
                    BoolIndex(d, [i \in 1..Len(d.rows) |-> Gt(Series(d, column_name)[i], value)])
               [] by = "greater/equal" ->
                    BoolIndex(d, [i \in 1..Len(d.rows) |-> Ge(Series(d, column_name)[i], value)])
       IN [df |-> new, out |-> Return(SizeInfo(new))]

\* filter without its assertion: on df = None an unknown `by` still reaches
\* the else branch, any other subscripts None
filter_unasserted(d, column_name, value, by) ==
  IF d = None
  THEN IF by \notin ValidBy THEN [df |-> d, out |-> Return(Unrecognized(by))]
       ELSE [df |-> d, out |-> Raise("TypeError", "'NoneType' object is not subscriptable")]
  ELSE FilterRows(d, column_name, value, by)

filter(d, column_name, value, by) ==
  IF d = None THEN AssertLoaded(d)
  ELSE FilterRows(d, column_name, value, by)

\* lower = q1 - 1.5*iqr and upper = q3 + 1.5*iqr, both held times eight;
\* with no value in the column the quartiles are nan and every row is dropped
remove_outliers(d, column_name) ==
  IF d = None THEN AssertLoaded(d)
  ELSE IF ~HasColumn(d, column_name) THEN KeyError(d, column_name)
  ELSE LET q1 == Quantile4(Series(d, column_name), 1)
           q3 == Quantile4(Series(d, column_name), 3)
           iqr4 == q3.x4 - q1.x4
           lower8 == 2 * q1.x4 - 3 * iqr4
           upper8 == 2 * q3.x4 + 3 * iqr4
           new == BoolIndex(d, [i \in 1..Len(d.rows) |->
                    /\ ~q1.nan
                    /\ Series(d, column_name)[i] # NaN
                    /\ lower8 <= 8 * Series(d, column_name)[i]
                    /\ 8 * Series(d, column_name)[i] <= upper8])
       IN [df |-> new, out |-> Return(SizeInfo(new))]

\* a mean that first drops the column's missing rows from the global df
compute_mean_dropna(d, column_name) ==
  IF d = None THEN AssertLoaded(d)
  ELSE IF ~HasColumn(d, column_name) THEN KeyError(d, column_name)
  ELSE [df |-> BoolIndex(d, [i \in 1..Len(d.rows) |-> Series(d, column_name)[i] # NaN]),
        out |-> Return([float |-> Mean(Series(d, column_name))])]

compute_mean(d, column_name) ==
  IF d = None THEN AssertLoaded(d)
  ELSE IF ~HasColumn(d, column_name) THEN KeyError(d, column_name)
  ELSE [df |-> d, out |-> Return([float |-> Mean(Series(d, column_name))])]

compute_standard_deviation(d, column_name) ==
  IF d = None THEN AssertLoaded(d)
  ELSE IF ~HasColumn(d, column_name) THEN KeyError(d, column_name)
  ELSE [df |-> d, out |-> Return([float |-> Std(Series(d, column_name))])]

\* ------------------------------------------------------------ the registry
DatasetTools ==
  {"get_column_names", "describe_column", "get_value_counts", "filter",
   "remove_outliers", "compute_mean", "compute_standard_deviation"}

ReadOnlyTools ==
  {"get_column_names", "describe_column", "get_value_counts",
   "compute_mean", "compute_standard_deviation"}

\* the names registered with @mcp.tool()
ToolNames == {"load_data"} \cup DatasetTools

\* the registered function of a name, applied to the call's arguments
Invoke(d, name, arguments) ==
  CASE name = "load_data" -> load_data(d, arguments.file_name)
    [] name = "get_column_names" -> get_column_names(d)
    [] name = "describe_column" -> describe_column(d, arguments.column_name)
    [] name = "get_value_counts" -> get_value_counts(d, arguments.column_name)
    [] name = "filter" ->
         filter(d, arguments.column_name, arguments.value, arguments.by)
    [] name = "remove_outliers" -> remove_outliers(d, arguments.column_name)
    [] name = "compute_mean" -> compute_mean(d, arguments.column_name)
    [] name = "compute_standard_deviation" ->
         compute_standard_deviation(d, arguments.column_name)

\* FastMCP serving one tools/call request: the result the client receives
call_tool(d, name, arguments) ==
  IF name \notin ToolNames
  THEN [df |-> d,
        result |-> [isError |-> TRUE,
                    content |-> [error |-> "Unknown tool", text |-> name]]]
  ELSE LET r == Invoke(d, name, arguments)
       IN [df |-> r.df,
           result |-> IF r.out.kind = "raise"
                      THEN [isError |-> TRUE,
                            content |-> [error |-> r.out.exc, text |-> r.out.msg]]
                      ELSE [isError |-> FALSE, content |-> r.out.value]]

\* ------------------------------------------------------------ the client's inputs
\* tool calls in one model response: 0..MaxCalls
MaxCalls == 2
\* tool calls the model emits during one query, over all its responses
MaxIds == 3
\* iterations of the while loop of process_query that are followed
MaxIter == 4
\* queries typed before quit
MaxQueries == 2

\* tool_call.function.arguments is JSON text: well-formed text of a dict, or not
JsonOf(dict) == [wellformed |-> TRUE, dict |-> dict]
BadJson == [wellformed |-> FALSE, dict |-> EmptyDict]

\* json.loads
json_loads(text) ==
  IF text.wellformed THEN Return(text.dict)
  ELSE Raise("JSONDecodeError", "Expecting value")

\* the function calls the model asks for
FunctionPool ==
  { [name |-> "load_data", arguments |-> JsonOf([file_name |-> <<"titanic">>])],
    [name |-> "filter",
     arguments |-> JsonOf([column_name |-> "age", value |-> 2, by |-> "bogus"])],
    [name |-> "add", arguments |-> JsonOf([a |-> 1, b |-> 2])],
    [name |-> "get_column_names", arguments |-> BadJson] }

FunctionLists == UNION {[1..k -> FunctionPool] : k \in 0..MaxCalls}

\* the choices[0] a completion can carry; the tool calls of one query are
\* numbered in the order the model emits them, from `next`
StopChoice ==
  [finish_reason |-> "stop", content |-> "answer", tool_calls |-> <<>>]
LengthChoice ==
  [finish_reason |-> "length", content |-> "cut", tool_calls |-> <<>>]
ToolCallsChoice(fs, next) ==
  [finish_reason |-> "tool_calls", content |-> "",
   tool_calls |-> [i \in 1..Len(fs) |-> [id |-> next + i - 1, function |-> fs[i]]]]

Choices(next) ==
  {StopChoice, LengthChoice}
    \cup {ToolCallsChoice(fs, next) :
            fs \in {l \in FunctionLists : next + Len(l) - 1 <= MaxIds}}

IdsOf(choice) == {choice.tool_calls[i].id : i \in 1..Len(choice.tool_calls)}

\* ------------------------------------------------------------ the messages
UserMessage(query) == [role |-> "user", content |-> [query |-> query]]

\* "[Calling tool {tool_name} with args {tool_args}]"
CallingText(tool_name, tool_args) == [calling |-> tool_name, args |-> tool_args]
\* "[Tool response: {result.content}]"
ResponseText(result) == [tool_response |-> result.content]

AssistantRecord(tool_name, tool_args) ==
  [role |-> "assistant", content |-> CallingText(tool_name, tool_args)]
ToolResultRecord(result) == [role |-> "user", content |-> result.content]

\* a fold that puts the tool result before the record of its call
FoldCall_swapped(msgs, tool_name, tool_args, result) ==
  msgs \o <<ToolResultRecord(result), AssistantRecord(tool_name, tool_args)>>

\* a fold that keeps failed calls out of the history
FoldCall_dropErrors(msgs, tool_name, tool_args, result) ==
  IF result.isError \/ ("success" \in DOMAIN result.content /\ ~result.content.success)
  THEN msgs
  ELSE msgs \o <<AssistantRecord(tool_name, tool_args), ToolResultRecord(result)>>

\* the two messages.append of one tool call
FoldCall(msgs, tool_name, tool_args, result) ==
  msgs \o <<AssistantRecord(tool_name, tool_args), ToolResultRecord(result)>>

\* ------------------------------------------------------------ state
\* ------------------------------------------------------------ discovery
\* the tools registered by the @mcp.tool() decorators, in source order: the
\* name is the function's name, the description its docstring (first sentence
\* kept), the input schema its annotated parameters
ToolRegistry ==
  << [name |-> "load_data",
      description |-> "Load data from file_name.",
      inputSchema |-> [file_name |-> "string"]],
     [name |-> "get_column_names",
      description |-> "Returns all column names of dataset.",
      inputSchema |-> EmptyDict],
     [name |-> "describe_column",
      description |-> "Uses the describe function from the pandas library.",
      inputSchema |-> [column_name |-> "string"]],
     [name |-> "get_value_counts",
      description |-> "Uses the value_counts function from the pandas library.",
      inputSchema |-> [column_name |-> "string"]],
     [name |-> "filter",
      description |-> "Filters the column column_name.",
      inputSchema |->
        [column_name |-> "string", value |-> "number", by |-> "string"]],
     [name |-> "remove_outliers",
      description |-> "Removes outliers from column_name.",
      inputSchema |-> [column_name |-> "string"]],
     [name |-> "compute_mean",
      description |-> "Computes mean of provided column_name.",
      inputSchema |-> [column_name |-> "string"]],
     [name |-> "compute_standard_deviation",
      description |-> "Computes standard deviation of provided column_name.",
      inputSchema |-> [column_name |-> "string"]] >>

\* FastMCP answering tools/list
list_tools == [tools |-> ToolRegistry]

\* a schema that loses the parameters
FunctionSchema_noParameters(tool) ==
  [type |-> "function",
   function |-> [name |-> tool.name, description |-> tool.description,
                 parameters |-> EmptyDict]]

\* process_query's entry for one tool of self.tools
FunctionSchema(tool) ==
  [type |-> "function",
   function |-> [name |-> tool.name, description |-> tool.description,
                 parameters |-> tool.inputSchema]]

\* process_query's `tools` list
available_tools(tools) == [i \in 1..Len(tools) |-> FunctionSchema(tools[i])]

\* ------------------------------------------------------------ the connection
\* a server script path, as <<stem, suffix>>
ServerPy == <<"src/mcp_server", ".py">>
NotesTxt == <<"notes", ".txt">>
ScriptPaths == {ServerPy, NotesTxt}

is_python(path) == path[2] = ".py"
is_js(path) == path[2] = ".js"

\* a check that lets every path through to node
Supported_any(path) == TRUE

\* the check before `raise ValueError`
Supported(path) == is_python(path) \/ is_js(path)

RECURSIVE Reverse(_)
Reverse(stack) ==
  IF stack = <<>> THEN <<>>
  ELSE Append(Reverse(Tail(stack)), Head(stack))

\* an exit stack that closes in the order of entering
aclose_fifo(stack) == stack

\* AsyncExitStack.aclose(): the contexts are exited last entered first; the
\* order in which they are released
aclose(stack) == Reverse(stack)

\* a fresh history carried over from the last query
NewHistory_carried(old, query) == Append(old, UserMessage(query))

\* process_query's fresh `messages` list
NewHistory(old, query) == <<UserMessage(query)>>

VARIABLES
  df,          \* the server's global DataFrame, or None
  loaded,      \* what the most recent successful load_data read, or None
  dfBefore,    \* df as the call served last found it
  lastCall,    \* the tools/call request served last
  lastResult,  \* the result returned for it
  pc,          \* where the client is: "main", "stdio", "session",
               \* "initialized", "input", "while", "for", "resubmit", "done",
               \* "raised", "finally", "exited"
  server_script_path, \* sys.argv[1]
  exit_stack,  \* the contexts entered on self.exit_stack and not yet exited
  acquired,    \* every resource opened so far, in the order of opening
  released,    \* every resource released so far, in the order of release
  sent,        \* the session requests written so far, tools/call apart
  tools,       \* self.tools (not set by __init__, not read before it is set)
  exc,         \* the exception being propagated, "" when none
  errors,      \* the "Error:" lines chat_loop has printed
  advertised,  \* the `tools` argument of the last completion request
  history,     \* the `messages` argument of the last completion request
  queries,     \* queries read so far by chat_loop
  messages,    \* process_query's history
  response,    \* process_query's `response`: the choices[0] of the last completion
  tool_calls,  \* the list the for loop iterates: content.message.tool_calls
  idx,         \* the for loop's position in it
  final_text,  \* process_query's final_text
  modelCalls,  \* completions requested in this query
  invocations, \* the tool calls sent in this query, with the parsed arguments
               \* and the result received
  produced,    \* ids of the tool calls in the responses received in this query
  nextId,      \* the number of the next tool call the model emits
  turns,       \* Len(tool_calls) of each tool_calls iteration of the while loop
  iterations   \* iterations of the while loop in this query

serverVars == <<df, loaded, dfBefore, lastCall, lastResult>>
connVars == <<server_script_path, exit_stack, acquired, released, sent, tools>>
requestVars == <<advertised, history>>
clientVars ==
  <<pc, queries, messages, response, tool_calls, idx, final_text, modelCalls,
    invocations, produced, nextId, turns, iterations, connVars, exc, errors,
    requestVars>>
queryVars ==
  <<messages, response, tool_calls, idx, final_text, modelCalls,
    invocations, produced, nextId, turns, iterations>>
vars == <<serverVars, clientVars>>

NoCall == [name |-> "", arguments |-> EmptyDict]
NoResult == [isError |-> FALSE, content |-> EmptyDict]
NoChoice == [finish_reason |-> "", content |-> "", tool_calls |-> <<>>]

InitServer ==
  /\ df = None
  /\ loaded = None
  /\ dfBefore = None
  /\ lastCall = NoCall
  /\ lastResult = NoResult

\* main has built the MCPClient and is about to call connect_to_server
InitClient ==
  /\ pc = "main"
  /\ server_script_path \in ScriptPaths
  /\ exit_stack = <<>>
  /\ acquired = <<>>
  /\ released = <<>>
  /\ sent = {}
  /\ tools = <<>>
  /\ exc = ""
  /\ errors = 0
  /\ advertised = <<>>
  /\ history = <<>>
  /\ queries = 0
  /\ messages = <<>>
  /\ response = NoChoice
  /\ tool_calls = <<>>
  /\ idx = 0
  /\ final_text = <<>>
  /\ modelCalls = 0
  /\ invocations = <<>>
  /\ produced = {}
  /\ nextId = 1
  /\ turns = <<>>
  /\ iterations = 0

Init == InitServer /\ InitClient

\* ------------------------------------------------------------ the server's steps
\* the server handles one tools/call request
Serve(name, arguments) ==
  LET r == call_tool(df, name, arguments)
  IN /\ df' = r.df
     /\ loaded' = IF name = "load_data" /\ ~r.result.isError THEN r.df ELSE loaded
     /\ dfBefore' = df
     /\ lastCall' = [name |-> name, arguments |-> arguments]
     /\ lastResult' = r.result

Request(name, arguments) == Serve(name, arguments) /\ UNCHANGED clientVars

ReqLoadData == \E f \in FileNames : Request("load_data", [file_name |-> f])
ReqGetColumnNames == Request("get_column_names", EmptyDict)
ReqDescribeColumn ==
  \E c \in ColumnNames : Request("describe_column", [column_name |-> c])
ReqGetValueCounts ==
  \E c \in ColumnNames : Request("get_value_counts", [column_name |-> c])
ReqFilter ==
  \E c \in ColumnNames, v \in Values, by \in ByArgs :
    Request("filter", [column_name |-> c, value |-> v, by |-> by])
ReqRemoveOutliers ==
  \E c \in ColumnNames : Request("remove_outliers", [column_name |-> c])
ReqComputeMean ==
  \E c \in ColumnNames : Request("compute_mean", [column_name |-> c])
ReqComputeStandardDeviation ==
  \E c \in ColumnNames :
    Request("compute_standard_deviation", [column_name |-> c])
ReqUnknownTool == Request("add", [a |-> 1, b |-> 2])

NextServer ==
  \/ ReqLoadData
  \/ ReqGetColumnNames
  \/ ReqDescribeColumn
  \/ ReqGetValueCounts
  \/ ReqFilter
  \/ ReqRemoveOutliers
  \/ ReqComputeMean
  \/ ReqComputeStandardDeviation
  \/ ReqUnknownTool

\* the server alone, driven by any client
InitAlone == Init /\ server_script_path = ServerPy

SpecServer == InitAlone /\ [][NextServer]_vars

\* ------------------------------------------------------------ connecting
\* connect_to_server refuses a script that is neither .py nor .js
ConnectUnsupported ==
  /\ pc = "main"
  /\ ~Supported(server_script_path)
  /\ exc' = "ValueError"
  /\ pc' = "finally"
  /\ UNCHANGED <<serverVars, queries, queryVars, connVars, errors, requestVars>>

\* stdio_client is entered on the exit stack: the server process is started
EnterStdio ==
  /\ pc = "main"
  /\ Supported(server_script_path)
  /\ exit_stack' = Append(exit_stack, "stdio_transport")
  /\ acquired' = Append(acquired, "stdio_transport")
  /\ pc' = "stdio"
  /\ UNCHANGED <<serverVars, queries, queryVars, server_script_path, released,
                 sent, tools, exc, errors, requestVars>>

\* ClientSession is entered on the exit stack
EnterSession ==
  /\ pc = "stdio"
  /\ exit_stack' = Append(exit_stack, "session")
  /\ acquired' = Append(acquired, "session")
  /\ pc' = "session"
  /\ UNCHANGED <<serverVars, queries, queryVars, server_script_path, released,
                 sent, tools, exc, errors, requestVars>>

\* session.initialize()
Initialize ==
  /\ pc = "session"
  /\ sent' = sent \cup {"initialize"}
  /\ pc' = "initialized"
  /\ UNCHANGED <<serverVars, queries, queryVars, server_script_path, exit_stack,
                 acquired, released, tools, exc, errors, requestVars>>

\* session.list_tools(); self.tools = response.tools
ListTools ==
  /\ pc = "initialized"
  /\ sent' = sent \cup {"tools/list"}
  /\ tools' = list_tools.tools
  /\ pc' = "input"
  /\ UNCHANGED <<serverVars, queries, queryVars, server_script_path, exit_stack,
                 acquired, released, exc, errors, requestVars>>

\* a step of connect_to_server raises: entering stdio_client, entering
\* ClientSession, initialize() or list_tools(); a request that fails may have
\* been written before it failed; nothing is entered on the exit stack by a
\* context whose entering raised
ConnectFails ==
  /\ \/ pc = "main" /\ Supported(server_script_path) /\ sent' = sent
     \/ pc = "stdio" /\ sent' = sent
     \/ pc = "session" /\ sent' \in {sent, sent \cup {"initialize"}}
     \/ pc = "initialized" /\ sent' \in {sent, sent \cup {"tools/list"}}
  /\ exc' = "ConnectError"
  /\ pc' = "finally"
  /\ UNCHANGED <<serverVars, queries, queryVars, server_script_path, exit_stack,
                 acquired, released, tools, errors, requestVars>>

\* ------------------------------------------------------------ the client's steps
\* chat_loop reads a query; process_query builds the history and requests the
\* first completion
StartQuery ==
  /\ pc = "input"
  /\ queries < MaxQueries
  /\ queries' = queries + 1
  /\ messages' = NewHistory(messages, queries + 1)
  /\ advertised' = available_tools(tools)
  /\ history' = messages'
  /\ final_text' = <<>>
  /\ tool_calls' = <<>>
  /\ idx' = 0
  /\ invocations' = <<>>
  /\ turns' = <<>>
  /\ iterations' = 0
  /\ modelCalls' = 1
  /\ \E c \in Choices(1) :
       /\ response' = c
       /\ produced' = IdsOf(c)
       /\ nextId' = 1 + Len(c.tool_calls)
  /\ pc' = "while"
  /\ UNCHANGED <<serverVars, connVars, exc, errors>>

\* the first completion request raises
StartQueryFails ==
  /\ pc = "input"
  /\ queries < MaxQueries
  /\ queries' = queries + 1
  /\ messages' = NewHistory(messages, queries + 1)
  /\ advertised' = available_tools(tools)
  /\ history' = messages'
  /\ final_text' = <<>>
  /\ tool_calls' = <<>>
  /\ idx' = 0
  /\ invocations' = <<>>
  /\ turns' = <<>>
  /\ iterations' = 0
  /\ modelCalls' = 1
  /\ response' = NoChoice
  /\ produced' = {}
  /\ nextId' = 1
  /\ exc' = "APIError"
  /\ pc' = "raised"
  /\ UNCHANGED <<serverVars, connVars, errors>>

\* finish_reason == 'stop': the answer is the last line, the loop breaks
WhileStop ==
  /\ pc = "while"
  /\ iterations < MaxIter
  /\ response.finish_reason = "stop"
  /\ final_text' = Append(final_text, [answer |-> response.content])
  /\ iterations' = iterations + 1
  /\ pc' = "done"
  /\ UNCHANGED <<serverVars, queries, messages, response, tool_calls, idx,
                 modelCalls, invocations, produced, nextId, turns, connVars,
                 exc, errors, requestVars>>

\* finish_reason == 'tool_calls': the for loop starts over the tool calls of
\* this choice; an empty list ends the for loop at once
WhileToolCalls ==
  /\ pc = "while"
  /\ iterations < MaxIter
  /\ response.finish_reason = "tool_calls"
  /\ tool_calls' = response.tool_calls
  /\ idx' = 1
  /\ turns' = Append(turns, Len(response.tool_calls))
  /\ iterations' = iterations + 1
  /\ pc' = IF Len(response.tool_calls) = 0 THEN "while" ELSE "for"
  /\ UNCHANGED <<serverVars, queries, messages, response, final_text,
                 modelCalls, invocations, produced, nextId, connVars, exc,
                 errors, requestVars>>

\* any other finish_reason: it is printed and the loop goes round again with
\* the same response
WhileOther ==
  /\ pc = "while"
  /\ iterations < MaxIter
  /\ response.finish_reason \notin {"stop", "tool_calls"}
  /\ iterations' = iterations + 1
  /\ pc' = "while"
  /\ UNCHANGED <<serverVars, queries, messages, response, tool_calls, idx,
                 final_text, modelCalls, invocations, produced, nextId, turns,
                 connVars, exc, errors, requestVars>>

\* one tool call of the for loop: parse the arguments, call the tool, append
\* to final_text and to the history
ForDispatch ==
  /\ pc = "for"
  /\ LET tool_call == tool_calls[idx]
         tool_name == tool_call.function.name
         parsed == json_loads(tool_call.function.arguments)
     IN /\ parsed.kind = "return"
        /\ Serve(tool_name, parsed.value)
        /\ invocations' =
             Append(invocations,
                    [id |-> tool_call.id, name |-> tool_name,
                     arguments |-> parsed.value, result |-> lastResult'])
        /\ final_text' =
             final_text \o <<CallingText(tool_name, parsed.value),
                             ResponseText(lastResult')>>
        /\ messages' = FoldCall(messages, tool_name, parsed.value, lastResult')
  /\ pc' = "resubmit"
  /\ UNCHANGED <<queries, response, tool_calls, idx, modelCalls, produced,
                 nextId, turns, iterations, connVars, exc, errors,
                 requestVars>>

\* session.call_tool raises (the connection broke, the server answered with a
\* protocol error): the request may or may not have been served before that,
\* and no result reaches process_query
ForDispatchCallFails ==
  /\ pc = "for"
  /\ LET tool_call == tool_calls[idx]
         parsed == json_loads(tool_call.function.arguments)
     IN /\ parsed.kind = "return"
        /\ \/ Serve(tool_call.function.name, parsed.value)
           \/ UNCHANGED serverVars
  /\ exc' = "McpError"
  /\ pc' = "raised"
  /\ UNCHANGED <<queries, queryVars, connVars, errors, requestVars>>

\* json.loads raises on the arguments: the exception leaves process_query
ForDispatchBadJson ==
  /\ pc = "for"
  /\ json_loads(tool_calls[idx].function.arguments).kind = "raise"
  /\ exc' = "JSONDecodeError"
  /\ pc' = "raised"
  /\ UNCHANGED <<serverVars, queries, queryVars, connVars, errors, requestVars>>

\* the completion requested inside the for loop, after each tool call
ForResubmit ==
  /\ pc = "resubmit"
  /\ modelCalls' = modelCalls + 1
  /\ advertised' = available_tools(tools)
  /\ history' = messages
  /\ \E c \in Choices(nextId) :
       /\ response' = c
       /\ produced' = produced \cup IdsOf(c)
       /\ nextId' = nextId + Len(c.tool_calls)
  /\ IF idx < Len(tool_calls)
     THEN idx' = idx + 1 /\ pc' = "for"
     ELSE idx' = idx /\ pc' = "while"
  /\ UNCHANGED <<serverVars, queries, messages, tool_calls, final_text,
                 invocations, turns, iterations, connVars, exc, errors>>

\* that completion request raises
ForResubmitFails ==
  /\ pc = "resubmit"
  /\ modelCalls' = modelCalls + 1
  /\ advertised' = available_tools(tools)
  /\ history' = messages
  /\ exc' = "APIError"
  /\ pc' = "raised"
  /\ UNCHANGED <<serverVars, queries, messages, response, tool_calls, idx,
                 final_text, invocations, produced, nextId, turns, iterations,
                 connVars, errors>>

\* process_query returned: chat_loop prints the text and asks again
PrintResponse ==
  /\ pc = "done"
  /\ pc' = "input"
  /\ UNCHANGED <<serverVars, queries, queryVars, connVars, exc, errors,
                 requestVars>>

\* a handler that prints the error and lets it go on to main
PrintError_reraise ==
  /\ pc = "raised"
  /\ errors' = errors + 1
  /\ pc' = "finally"
  /\ UNCHANGED <<serverVars, queries, queryVars, connVars, exc, requestVars>>

\* a handler that starts over with a fresh server
PrintError_restart ==
  /\ pc = "raised"
  /\ errors' = errors + 1
  /\ exc' = ""
  /\ pc' = "input"
  /\ df' = None
  /\ UNCHANGED <<loaded, dfBefore, lastCall, lastResult, queries, queryVars,
                 connVars, requestVars>>

\* an Exception reached chat_loop's except clause: it prints the error and
\* the while loop asks again
PrintError ==
  /\ pc = "raised"
  /\ errors' = errors + 1
  /\ exc' = ""
  /\ pc' = "input"
  /\ UNCHANGED <<serverVars, queries, queryVars, connVars, requestVars>>

\* 'quit' breaks out of chat_loop, which returns to main's try block
Quit ==
  /\ pc = "input"
  /\ pc' = "finally"
  /\ UNCHANGED <<serverVars, queries, queryVars, connVars, exc, errors,
                 requestVars>>

\* a KeyboardInterrupt or a cancellation, which `except Exception` does not
\* catch, arrives while chat_loop waits for the user, for a tool or for the
\* model; process_query's frame is unwound on the way to main
Interrupt ==
  /\ pc \in {"input", "for", "resubmit"}
  /\ exc' = "KeyboardInterrupt"
  /\ pc' = "finally"
  /\ messages' = <<>>
  /\ response' = NoChoice
  /\ tool_calls' = <<>>
  /\ idx' = 0
  /\ final_text' = <<>>
  /\ modelCalls' = 0
  /\ invocations' = <<>>
  /\ produced' = {}
  /\ nextId' = 1
  /\ turns' = <<>>
  /\ iterations' = 0
  /\ UNCHANGED <<serverVars, queries, connVars, errors, requestVars>>

\* main's finally: cleanup() closes the exit stack
Cleanup ==
  /\ pc = "finally"
  /\ released' = released \o aclose(exit_stack)
  /\ exit_stack' = <<>>
  /\ pc' = "exited"
  /\ UNCHANGED <<serverVars, queries, queryVars, server_script_path, acquired,
                 sent, tools, exc, errors, requestVars>>

Next ==
  \/ ConnectUnsupported
  \/ EnterStdio
  \/ EnterSession
  \/ Initialize
  \/ ListTools
  \/ ConnectFails
  \/ StartQuery
  \/ StartQueryFails
  \/ WhileStop
  \/ WhileToolCalls
  \/ WhileOther
  \/ ForDispatch
  \/ ForDispatchCallFails
  \/ ForDispatchBadJson
  \/ ForResubmit
  \/ ForResubmitFails
  \/ PrintResponse
  \/ PrintError
  \/ Quit
  \/ Interrupt
  \/ Cleanup

\* the client and the server it drives
Spec == Init /\ [][Next]_vars

\* ------------------------------------------------------------ the server's claims
RowSet(d) == {d.rows[i] : i \in 1..Len(d.rows)}

\* C1: a dataset tool called while no load_data has succeeded, whatever its
\* arguments, returns an error result that carries the missing-load message,
\* and df stays None.
C1_PreconditionFailure ==
  (lastCall.name \in DatasetTools /\ loaded = None) =>
    /\ lastResult.isError
    /\ lastResult.content.text = MustLoadMsg
    /\ dfBefore = None
    /\ df = None

\* C1 witness: filter with an unknown comparator served before any load
C1_Witness ==
  /\ lastCall.name = "filter"
  /\ lastCall.arguments.by = "bogus"
  /\ loaded = None
  /\ lastResult.isError
  /\ lastResult.content.text = MustLoadMsg

\* what each comparator of the tool's description keeps
Satisfies(x, by, v) ==
  /\ x # NaN
  /\ \/ by = "equal" /\ x = v
     \/ by = "less" /\ x < v
     \/ by = "less/equal" /\ ~(x > v)
     \/ by = "greater" /\ x > v
     \/ by = "greater/equal" /\ ~(x < v)

FilterCase ==
  /\ lastCall.name = "filter"
  /\ dfBefore # None

\* C7: filter with a valid comparator on a column of the loaded dataset keeps
\* exactly the prior rows that satisfy the comparison, never more rows than
\* before, and reports the new row count.
C7_FilterKeepsSatisfying ==
  (/\ FilterCase
   /\ lastCall.arguments.by \in ValidBy
   /\ HasColumn(dfBefore, lastCall.arguments.column_name)) =>
    LET a == lastCall.arguments
        kept == {r \in RowSet(dfBefore) :
                   Satisfies(r.cells[a.column_name], a.by, a.value)}
    IN /\ ~lastResult.isError
       /\ lastResult.content.success
       /\ lastResult.content.information.data_size = Len(df.rows)
       /\ Len(df.rows) <= Len(dfBefore.rows)
       /\ RowSet(df) = kept
       /\ Len(df.rows) = Cardinality(kept)
       /\ df.columns = dfBefore.columns

\* C7 witness: a "less" filter that kept some rows and excluded others
C7_Witness ==
  /\ FilterCase
  /\ lastCall.arguments.by = "less"
  /\ ~lastResult.isError
  /\ Len(df.rows) > 0
  /\ Len(df.rows) < Len(dfBefore.rows)

\* C8: filter with an unknown comparator on a loaded dataset returns
\* success = False with an error message and leaves df as it was.
C8_UnrecognizedComparator ==
  (FilterCase /\ lastCall.arguments.by \notin ValidBy) =>
    /\ ~lastResult.isError
    /\ ~lastResult.content.success
    /\ DOMAIN lastResult.content.information = {"error_message"}
    /\ df = dfBefore
    /\ Len(df.rows) = Len(dfBefore.rows)

\* C8 witness: the unknown comparator served on a loaded, non-empty dataset
C8_Witness ==
  /\ FilterCase
  /\ lastCall.arguments.by = "bogus"
  /\ ~lastResult.isError
  /\ ~lastResult.content.success
  /\ Len(dfBefore.rows) > 0

\* C9: once loaded, df only narrows: its rows are rows of the most recent
\* successful load and its columns are that load's; a call other than
\* load_data keeps a sub-sequence of the rows it found; only filter and
\* remove_outliers change df, the five descriptive tools leave it unchanged.
C9_OnlyNarrows ==
  /\ df # None =>
       /\ loaded # None
       /\ df.columns = loaded.columns
       /\ RowSet(df) \subseteq RowSet(loaded)
  /\ (lastCall.name # "load_data" /\ dfBefore # None) =>
       /\ df # None
       /\ df.columns = dfBefore.columns
       /\ RowSet(df) \subseteq RowSet(dfBefore)
       /\ \A i, j \in 1..Len(df.rows) : i < j => df.rows[i].idx < df.rows[j].idx
  /\ (lastCall.name # "load_data" /\ df # dfBefore) =>
       lastCall.name \in {"filter", "remove_outliers"}
  /\ lastCall.name \in ReadOnlyTools => df = dfBefore

\* C9 witness: remove_outliers dropped some rows of a loaded dataset
C9_Witness ==
  /\ lastCall.name = "remove_outliers"
  /\ dfBefore # None
  /\ Len(df.rows) > 0
  /\ Len(df.rows) < Len(dfBefore.rows)

\* the source a file name names
NamedSource(file_name) ==
  IF \E i \in 1..Len(file_name) : file_name[i] = "titanic" THEN Titanic ELSE Iris

\* C10: a load_data that succeeds makes df the full content of the named
\* source, whatever df was, and returns success with that source's row count.
C10_LoadReplaces ==
  (lastCall.name = "load_data" /\ ~lastResult.isError) =>
    LET src == NamedSource(lastCall.arguments.file_name)
    IN /\ df = src
       /\ loaded = src
       /\ lastResult.content.success
       /\ lastResult.content.information.data_size = Len(src.rows)

\* C10 witness: a load that replaced a narrowed dataset of another source
C10_Witness ==
  /\ lastCall.name = "load_data"
  /\ ~lastResult.isError
  /\ dfBefore # None
  /\ dfBefore.columns # df.columns
  /\ Len(dfBefore.rows) < 3
  /\ Len(df.rows) = 5

\* ------------------------------------------------------------ the client's claims
DispatchedIds == {invocations[i].id : i \in 1..Len(invocations)}

\* a tool result that reports a failure: an error result, or success = False
IsFailure(result) ==
  \/ result.isError
  \/ "success" \in DOMAIN result.content /\ ~result.content.success

\* C2: a response whose finish_reason is neither stop nor tool_calls ends the
\* query: the step taken on it leaves the while loop.
C2_UnexpectedFinishEndsQuery ==
  [][(pc = "while" /\ response.finish_reason \notin {"stop", "tool_calls"})
       => pc' \in {"done", "raised"}]_vars

\* C3: the tool calls of one turn are dispatched in the order emitted, and a
\* completion is requested inside a query only when every tool call of the
\* current turn has been dispatched and folded into the history.
C3_TurnFoldedBeforeModelCall ==
  [][/\ Len(invocations') = Len(invocations) + 1 =>
          /\ invocations'[Len(invocations')].id = tool_calls[idx].id
          /\ \A j \in 1..(idx - 1) : tool_calls[j].id \in DispatchedIds
     /\ (pc = "resubmit" /\ modelCalls' = modelCalls + 1) =>
          \A j \in 1..Len(tool_calls) : tool_calls[j].id \in DispatchedIds
    ]_vars

\* C4: when the query returns, every tool call of every response received in
\* it has been dispatched exactly once.
C4_EveryToolCallDispatchedOnce ==
  pc = "done" =>
    \A id \in produced :
      Cardinality({i \in 1..Len(invocations) : invocations[i].id = id}) = 1

\* C5: a query of n turns of one tool call each, then stop, makes n + 1
\* completion requests and n tool invocations, and ends with the history
\* user query, then for each call its assistant record and its result record.
C5_OneCallPerTurn ==
  (pc = "done" /\ \A t \in 1..Len(turns) : turns[t] = 1) =>
    LET n == Len(turns)
    IN /\ modelCalls = n + 1
       /\ Len(invocations) = n
       /\ Len(messages) = 2 * n + 1
       /\ messages[1] = [role |-> "user", content |-> [query |-> queries]]
       /\ \A i \in 1..n :
            /\ messages[2 * i].role = "assistant"
            /\ messages[2 * i].content =
                 [calling |-> invocations[i].name, args |-> invocations[i].arguments]
            /\ messages[2 * i + 1].role = "user"
            /\ messages[2 * i + 1].content = invocations[i].result.content

\* C5 witness: two turns of one tool call each, then stop
C5_Witness ==
  /\ pc = "done"
  /\ turns = <<1, 1>>
  /\ modelCalls = 3
  /\ Len(invocations) = 2
  /\ Len(messages) = 5

\* C6: a tool call whose result reports a failure is folded into the history
\* like any other (assistant record, then result record) and the next step of
\* the query, if the client is not interrupted there, is the next completion
\* request.
C6_ToolErrorIsFolded ==
  [][/\ Len(invocations') = Len(invocations) + 1 =>
          LET inv == invocations'[Len(invocations')]
          IN /\ inv.result = lastResult'
             /\ pc' = "resubmit"
             /\ messages' =
                  messages \o
                    << [role |-> "assistant",
                        content |-> [calling |-> inv.name, args |-> inv.arguments]],
                       [role |-> "user", content |-> inv.result.content] >>
     /\ (pc = "resubmit" /\ pc' # "finally") => modelCalls' = modelCalls + 1
    ]_vars

\* C6 witness: a precondition failure, then a load, then an unknown comparator,
\* each followed by a completion request, and the query ended by stop
C6_Witness ==
  /\ pc = "done"
  /\ Len(invocations) = 3
  /\ invocations[1].result.isError
  /\ invocations[1].result.content.text = MustLoadMsg
  /\ invocations[2].name = "load_data"
  /\ ~invocations[3].result.isError
  /\ IsFailure(invocations[3].result)
  /\ Len(messages) = 7
  /\ messages[7].content = invocations[3].result.content
  /\ modelCalls = 4

\* ------------------------------------------------------------ C11 .. C20
\* C11: filter is idempotent: the same filter call (any column, threshold and
\* valid comparator) served again directly after itself on a loaded dataset
\* leaves df as it is and returns the same result, row count included.
C11_FilterIdempotent ==
  [][(/\ lastCall.name = "filter"
      /\ lastCall.arguments.by \in ValidBy
      /\ df # None
      /\ lastCall' = lastCall)
       => (df' = df /\ lastResult' = lastResult)]_vars

\* C11 witness: a valid filter found a dataset already narrowed to rows that
\* all satisfy it, and kept every one of them
C11_Witness ==
  /\ FilterCase
  /\ lastCall.arguments.by \in ValidBy
  /\ ~lastResult.isError
  /\ df = dfBefore
  /\ Len(df.rows) > 0
  /\ Len(df.rows) < Len(loaded.rows)
  /\ \E r \in RowSet(loaded) :
       ~Satisfies(r.cells[lastCall.arguments.column_name],
                  lastCall.arguments.by, lastCall.arguments.value)

\* the quartile of the sorted numbers v at k/4, times four: v[lo] plus the
\* fraction r/4 of the step to the next number, at position (n-1)*k/4
Quartile4(v, k) ==
  LET h4 == k * (Len(v) - 1)
      lo == 1 + (h4 \div 4)
      r == h4 % 4
  IN 4 * v[lo] + (IF r = 0 THEN 0 ELSE r * (v[lo + 1] - v[lo]))

\* the column holds no number below Q1 - 1.5*IQR or above Q3 + 1.5*IQR
NoValueOutside(d, c) ==
  LET v == Sort(dropna(Series(d, c)))
      q1 == Quartile4(v, 1)
      q3 == Quartile4(v, 3)
  IN \A i \in 1..Len(v) :
       /\ 8 * v[i] >= 2 * q1 - 3 * (q3 - q1)
       /\ 8 * v[i] <= 2 * q3 + 3 * (q3 - q1)

\* C12: remove_outliers on a column of the loaded dataset that holds no value
\* outside [Q1 - 1.5*IQR, Q3 + 1.5*IQR] leaves the row count unchanged.
C12_NoOutliersNoChange ==
  (/\ lastCall.name = "remove_outliers"
   /\ dfBefore # None
   /\ HasColumn(dfBefore, lastCall.arguments.column_name)
   /\ NoValueOutside(dfBefore, lastCall.arguments.column_name))
    => Len(df.rows) = Len(dfBefore.rows)

\* ------------------------------------------------------------ the connection's claims
\* C13: when main has left, whatever the way out, the exit stack is empty and
\* the resources released are the resources acquired, in the reverse of the
\* order of acquisition.
C13_ReleasedInReverse ==
  pc = "exited" =>
    /\ exit_stack = <<>>
    /\ Len(released) = Len(acquired)
    /\ \A i \in 1..Len(released) :
         released[i] = acquired[Len(acquired) + 1 - i]

\* C13 witness: initialize() failed with the transport and the session open
C13_Witness ==
  /\ pc = "exited"
  /\ exc = "ConnectError"
  /\ tools = <<>>
  /\ acquired = <<"stdio_transport", "session">>
  /\ released = <<"session", "stdio_transport">>

\* C14: once connect_to_server has been called with a path ending in neither
\* .py nor .js, it has raised ValueError, no resource was ever acquired or
\* released and no initialize or tools/list request was ever written.
C14_UnsupportedBeforeAnyChannel ==
  (server_script_path[2] \notin {".py", ".js"} /\ pc # "main") =>
    /\ exc = "ValueError"
    /\ pc \in {"finally", "exited"}
    /\ acquired = <<>>
    /\ exit_stack = <<>>
    /\ released = <<>>
    /\ sent = {}
    /\ tools = <<>>

\* C14 witness: main has left after the refusal of notes.txt
C14_Witness ==
  /\ pc = "exited"
  /\ server_script_path = NotesTxt
  /\ exc = "ValueError"

QueryErrors == {"APIError", "JSONDecodeError", "McpError"}

\* C15: an exception raised while a query is processed is reported by
\* chat_loop, which goes back to its prompt with the session as it was; such
\* an exception never takes the client out of chat_loop.
C15_ErrorAbortsQueryOnly ==
  /\ [][pc = "raised" =>
          /\ exc \in QueryErrors
          /\ pc' = "input"
          /\ errors' = errors + 1
          /\ exit_stack' = exit_stack
          /\ released' = released
          /\ tools' = tools]_vars
  /\ [](pc \in {"finally", "exited"} => exc \notin QueryErrors)
  /\ [](pc \in {"input", "while", "for", "resubmit", "done", "raised"} =>
          exit_stack = <<"stdio_transport", "session">> /\ released = <<>>)

\* C15 witness: the first query was aborted by an error, the second one called
\* a tool on the same session and came to its answer
C15_Witness ==
  /\ pc = "done"
  /\ queries = 2
  /\ errors = 1
  /\ Len(invocations) >= 1
  /\ ~invocations[1].result.isError
  /\ exit_stack = <<"stdio_transport", "session">>

\* C16: the names discovered at connect are the names call_tool accepts; every
\* completion request advertises the registered tools with their name,
\* description and parameter schema; a call of a name outside the discovered
\* ones is an "Unknown tool" error and leaves df as it was.
C16_DiscoveryRoundTrip ==
  /\ tools # <<>> => {tools[i].name : i \in 1..Len(tools)} = ToolNames
  /\ history # <<>> =>
       /\ Len(advertised) = Len(ToolRegistry)
       /\ \A i \in 1..Len(ToolRegistry) :
            /\ advertised[i].function.name = ToolRegistry[i].name
            /\ advertised[i].function.description = ToolRegistry[i].description
            /\ advertised[i].function.parameters = ToolRegistry[i].inputSchema
  /\ (lastCall # NoCall /\ \A i \in 1..Len(tools) : tools[i].name # lastCall.name)
       => /\ lastResult.isError
          /\ lastResult.content.error = "Unknown tool"
          /\ df = dfBefore

\* C16 witness: the model asked for a tool nobody registered, on a loaded dataset
C16_Witness ==
  /\ pc = "resubmit"
  /\ lastCall.name = "add"
  /\ lastResult.isError
  /\ dfBefore # None
  /\ Len(advertised) = 8

StrictPrefix(a, b) == Len(a) < Len(b) /\ \A i \in 1..Len(a) : a[i] = b[i]

\* C17: the first completion request of a query carries the one user message
\* of that query; every later request of the query carries the history of the
\* request before it, plus at least one record appended; between requests
\* process_query only appends to its history.
C17_HistoryAppendOnly ==
  [][/\ (pc = "input" /\ pc' \in {"while", "raised"}) =>
          history' = <<[role |-> "user", content |-> [query |-> queries']]>>
     /\ pc = "resubmit" /\ pc' # "finally" => StrictPrefix(history, history')
     /\ (pc \in {"while", "for", "resubmit"} /\ pc' # "finally") =>
          (messages' = messages \/ StrictPrefix(messages, messages'))]_vars

\* C17 witness: the second completion request of the second query
C17_Witness ==
  /\ queries = 2
  /\ modelCalls = 2
  /\ pc \in {"while", "for"}
  /\ Len(history) = 3
  /\ history[1] = UserMessage(2)

\* C18: df is at every moment what the tool call served last left, and only a
\* tool call dispatched by the for loop changes it: the next call, in this
\* query or the next, finds that state.
C18_MutationsStay ==
  /\ [](lastCall # NoCall =>
          df = call_tool(dfBefore, lastCall.name, lastCall.arguments).df)
  /\ [][lastCall' # lastCall \/ df' # df \/ dfBefore' # dfBefore =>
          pc = "for" /\ dfBefore' = df]_vars

\* C18 witness: the first query loaded a dataset and was aborted by an error;
\* the first tool call of the second query found the dataset
C18_Witness ==
  /\ queries = 2
  /\ errors = 1
  /\ Len(invocations) = 1
  /\ invocations[1].name = "filter"
  /\ dfBefore # None
  /\ dfBefore = loaded

\* C19: a tool call that ends in a failure (an error result, or success =
\* False) leaves df exactly as the call found it.
C19_FailureChangesNothing ==
  (lastCall # NoCall /\ IsFailure(lastResult)) => df = dfBefore

\* C19 witness: a load_data of an unreadable file served on a narrowed dataset
C19_Witness ==
  /\ lastCall.name = "load_data"
  /\ lastResult.isError
  /\ df # None
  /\ df = dfBefore
  /\ Len(df.rows) > 0
  /\ Len(df.rows) < Len(loaded.rows)

\* C20: once a load_data has succeeded df is never None again, and no dataset
\* tool served afterwards reports the missing load, an empty dataset included.
C20_NeverAbsentAgain ==
  loaded # None =>
    /\ df # None
    /\ lastCall.name \in DatasetTools =>
         /\ dfBefore # None
         /\ ~(lastResult.isError /\ lastResult.content.text = MustLoadMsg)

\* C20 witness: get_column_names answered on a dataset narrowed to no rows
C20_Witness ==
  /\ lastCall.name = "get_column_names"
  /\ dfBefore # None
  /\ Len(dfBefore.rows) = 0
  /\ ~lastResult.isError
  /\ lastResult.content.list = loaded.columns

====
